---- MODULE Spec2Model ----
(***************************************************************************)
(* Model of sublimall/archiver.py: class Archiver.                         *)
(*                                                                         *)
(* Python str values are TLA+ strings (\o, Len, SubSeq, Head and Tail work *)
(* on them), lists are sequences, an optional value (None or a value) is a *)
(* sequence of length 0 or 1, and **kwargs is a function whose DOMAIN is   *)
(* the set of keyword names that were passed.                              *)
(*                                                                         *)
(* Spec        : the backup-directory operations on the filesystem         *)
(*               (move_packages_to_backup_dirs, remove_backup_dirs), one   *)
(*               step per filesystem primitive.                            *)
(* SpecArchive : the archiver operations (pack_packages, unpack_packages,  *)
(*               _run_executable, _excludes_from_package_control), one     *)
(*               step per call.                                            *)
(***************************************************************************)
EXTENDS Integers, Sequences, FiniteSets, TLC

VARIABLES
    dataPath,        \* the host's data directory, parent of both package dirs
    directory_list,  \* self.directory_list, as <<key, value>> pairs in iteration order
    fs,              \* the filesystem: directory path -> [exists, files]
    op,              \* the backup operation being executed ("" when none)
    pc,              \* index of its next filesystem step (0 when idle)
    log,             \* the logger.info messages of the current backup operation
    outcome,         \* how the last backup operation ended
    before,          \* history: fs when the current backup operation was called
    afterRemoval,    \* history: each backup dir right after its removal attempt, if made
    zipBin,          \* what get_7za_bin() returns: <<>> (None) or <<path>>
    pcSettings,      \* 'Package Control.sublime-settings', key -> value
    blacklist,       \* the blacklist module: [packages, installed_packages]
    call,            \* the last archiver call: its name and arguments
    popen,           \* the argument lists handed to subprocess.Popen by that call
    ret              \* how that call ended: returned value or raised exception

vars == <<dataPath, directory_list, fs, op, pc, log, outcome, before, afterRemoval,
          zipBin, pcSettings, blacklist, call, popen, ret>>

hostVars == <<dataPath, directory_list, zipBin, pcSettings, blacklist>>
backupVars == <<fs, op, pc, log, outcome, before, afterRemoval>>
archiveVars == <<call, popen, ret>>

-----------------------------------------------------------------------------
(* Bounds of the model *)

\* number of distinct files a directory tree may hold
MaxFiles == 1

\* longest installed_packages list of the Package Control settings
MaxPackages == 2

Files == 1..MaxFiles

-----------------------------------------------------------------------------
(* str and os.path (posixpath) as the code uses them *)

Max(S) == CHOOSE m \in S : \A n \in S : n <= m

CharAt(s, i) == SubSeq(s, i, i)

\* s.rfind('/') + 1, as posixpath.basename and posixpath.split compute it
RFindSep(s) ==
    LET I == {i \in 1..Len(s) : CharAt(s, i) = "/"}
    IN  IF I = {} THEN 0 ELSE Max(I)

\* os.path.basename(p): everything after the last separator
basename(p) == SubSeq(p, RFindSep(p) + 1, Len(p))

RECURSIVE RStripSep(_)
RStripSep(s) ==
    IF Len(s) > 0 /\ CharAt(s, Len(s)) = "/" THEN RStripSep(SubSeq(s, 1, Len(s) - 1)) ELSE s

\* os.path.split(p): <<head, tail>>; head loses its trailing separators
\* unless it consists of separators only
split(p) ==
    LET i == RFindSep(p)
        head == SubSeq(p, 1, i)
        tail == SubSeq(p, i + 1, Len(p))
    IN  <<IF RStripSep(head) = "" THEN head ELSE RStripSep(head), tail>>

\* os.path.join(a, b)
join(a, b) ==
    IF Len(b) > 0 /\ Head(b) = "/" THEN b
    ELSE IF a = "" \/ CharAt(a, Len(a)) = "/" THEN a \o b
    ELSE a \o "/" \o b

\* s.split('/')
RECURSIVE SplitSep(_)
SplitSep(s) ==
    LET I == {i \in 1..Len(s) : CharAt(s, i) = "/"}
    IN  IF I = {} THEN <<s>>
        ELSE LET i == CHOOSE m \in I : \A n \in I : m <= n
             IN  <<SubSeq(s, 1, i - 1)>> \o SplitSep(SubSeq(s, i + 1, Len(s)))

\* the component stack of posixpath.normpath for an absolute path
RECURSIVE NormComps(_, _)
NormComps(comps, acc) ==
    IF comps = <<>> THEN acc
    ELSE LET c == Head(comps)
         IN  IF c = "" \/ c = "." THEN NormComps(Tail(comps), acc)
             ELSE IF c = ".."
                  THEN NormComps(Tail(comps),
                                 IF acc = <<>> THEN acc ELSE SubSeq(acc, 1, Len(acc) - 1))
                  ELSE NormComps(Tail(comps), Append(acc, c))

RECURSIVE JoinSep(_)
JoinSep(comps) ==
    IF comps = <<>> THEN "" ELSE "/" \o Head(comps) \o JoinSep(Tail(comps))

\* os.path.abspath(p) for the absolute paths the host hands out
abspath(p) ==
    LET comps == NormComps(SplitSep(p), <<>>)
    IN  IF comps = <<>> THEN "/" ELSE JoinSep(comps)

UpperCase == "ABCDEFGHIJKLMNOPQRSTUVWXYZ"
LowerCase == "abcdefghijklmnopqrstuvwxyz"

LowerChar(c) ==
    LET I == {i \in 1..Len(UpperCase) : CharAt(UpperCase, i) = c}
    IN  IF I = {} THEN c ELSE CharAt(LowerCase, CHOOSE i \in I : TRUE)

\* str.lower()
RECURSIVE lower(_)
lower(s) == IF s = "" THEN "" ELSE LowerChar(Head(s)) \o lower(Tail(s))

-----------------------------------------------------------------------------
(* Python dict and list helpers *)

\* d[k] = v
SetItem(d, k, v) == [x \in DOMAIN d \cup {k} |-> IF x = k THEN v ELSE d[x]]

\* d.get(k, default)
Get(d, k, default) == IF k \in DOMAIN d THEN d[k] ELSE default

\* a list of lists, concatenated: the result of a nested comprehension
RECURSIVE Flatten(_)
Flatten(lists) == IF lists = <<>> THEN <<>> ELSE Head(lists) \o Flatten(Tail(lists))

-----------------------------------------------------------------------------
(* The host editor: paths, settings, bundled binary *)

DataPaths == {"/d", "/home/u/st"}

\* sublime.packages_path()
packages_path == join(dataPath, "Packages")

\* sublime.installed_packages_path()
installed_packages_path == join(dataPath, "Installed Packages")

\* Archiver.__init__
packages_bak_path == packages_path \o ".bak"
installed_packages_bak_path == installed_packages_path \o ".bak"

\* the items of the dict literal of __init__, in insertion order
DirectoryItems ==
    << <<packages_path, "">>, <<installed_packages_path, ".sublime-package">> >>

\* the orders in which a dict of these two keys can be iterated: insertion
\* order where the interpreter keeps it, hash order (either one) elsewhere
DictOrders(items) == {items, <<items[2], items[1]>>}

\* list(d) and d.keys()
Keys(items) == [i \in 1..Len(items) |-> items[i][1]]

-----------------------------------------------------------------------------
(* The filesystem *)

Absent == [exists |-> FALSE, files |-> {}]
Dir(c) == [exists |-> TRUE, files |-> c]
DirStates == {Absent} \cup {Dir(c) : c \in SUBSET Files}

SourceDirs == {packages_path, installed_packages_path}
BackupDirs == {packages_bak_path, installed_packages_bak_path}
AllDirs == SourceDirs \cup BackupDirs

\* faulty variant: rmtree without ignore_errors, a failed removal raises
_safe_rmtree_not_ignoring_errors(f, directory) ==
    IF f[directory].exists
    THEN {[fs |-> [f EXCEPT ![directory] = Absent], raised |-> FALSE]}
         \cup {[fs |-> [f EXCEPT ![directory] = Dir(c)], raised |-> TRUE] :
                   c \in SUBSET f[directory].files}
    ELSE {[fs |-> f, raised |-> FALSE]}

\* _safe_rmtree(directory): the <<filesystem, raised>> results it can have.
\* rmtree with ignore_errors=True removes the tree, or gives up at any point
\* and leaves the directory holding any part of what it held; it never raises.
_safe_rmtree(f, directory) ==
    IF f[directory].exists
    THEN {[fs |-> [f EXCEPT ![directory] = Absent], raised |-> FALSE]}
         \cup {[fs |-> [f EXCEPT ![directory] = Dir(c)], raised |-> FALSE] :
                   c \in SUBSET f[directory].files}
    ELSE {[fs |-> f, raised |-> FALSE]}

\* faulty variant: the source is moved (shutil.move), as the method's name suggests
_safe_copy_moving(f, source, destination) ==
    IF ~f[destination].exists
    THEN IF f[source].exists
         THEN {[fs |-> [f EXCEPT ![destination] = Dir(f[source].files),
                                 ![source] = Absent],
                raised |-> FALSE]}
         ELSE {[fs |-> f, raised |-> TRUE]}
    ELSE {[fs |-> f, raised |-> FALSE]}

\* _safe_copy(source, destination): the <<filesystem, raised>> results it can
\* have.  copytree raises before creating anything when the source cannot be
\* listed, or after copying any part when an entry fails.
_safe_copy(f, source, destination) ==
    IF ~f[destination].exists
    THEN IF f[source].exists
         THEN {[fs |-> [f EXCEPT ![destination] = Dir(f[source].files)], raised |-> FALSE]}
              \cup {[fs |-> [f EXCEPT ![destination] = Dir(c)], raised |-> TRUE] :
                        c \in SUBSET f[source].files}
              \cup {[fs |-> f, raised |-> TRUE]}
         ELSE {[fs |-> f, raised |-> TRUE]}
    ELSE {[fs |-> f, raised |-> FALSE]}

-----------------------------------------------------------------------------
(* Backup operations, as the sequence of filesystem steps each performs *)

Rmtree(d) == [kind |-> "rmtree", source |-> "", dir |-> d]
Copy(s, d) == [kind |-> "copy", source |-> s, dir |-> d]

\* remove_backup_dirs: the loop over the two backup paths
remove_backup_dirs ==
    LET directories == <<packages_bak_path, installed_packages_bak_path>>
    IN  [i \in 1..Len(directories) |-> Rmtree(directories[i])]

\* faulty variant: the old backups are removed after the copies instead of before
move_copying_before_removal ==
    <<Copy(installed_packages_path, installed_packages_bak_path),
      Copy(packages_path, packages_bak_path)>>
    \o remove_backup_dirs

\* faulty variant: the Packages copy comes first
move_copying_packages_first ==
    remove_backup_dirs
    \o <<Copy(packages_path, packages_bak_path),
         Copy(installed_packages_path, installed_packages_bak_path)>>

\* move_packages_to_backup_dirs
move_packages_to_backup_dirs ==
    remove_backup_dirs
    \o <<Copy(installed_packages_path, installed_packages_bak_path),
         Copy(packages_path, packages_bak_path)>>

Program(o) ==
    IF o = "move_packages_to_backup_dirs" THEN move_packages_to_backup_dirs
    ELSE IF o = "remove_backup_dirs" THEN remove_backup_dirs
    ELSE <<>>

\* the logger.info message that precedes a step
LogMessage(step) ==
    IF step.kind = "rmtree" THEN "Remove old backup dir: " \o step.dir
    ELSE "Move " \o step.source \o " to " \o step.dir

NoOutcome == [status |-> "none", at |-> ""]
Running == [status |-> "running", at |-> ""]
Returned == [status |-> "returned", at |-> ""]
Raised(d) == [status |-> "raised", at |-> d]

\* no removal attempted yet
NothingRemoved == [d \in {} |-> Absent]

\* a caller invokes one of the two public backup operations
CallBackupOp(o) ==
    /\ pc = 0
    /\ op' = o
    /\ pc' = 1
    /\ log' = <<>>
    /\ outcome' = Running
    /\ before' = fs
    /\ afterRemoval' = NothingRemoved
    /\ UNCHANGED <<fs, hostVars, archiveVars>>

Advance ==
    IF pc < Len(Program(op))
    THEN pc' = pc + 1 /\ outcome' = outcome
    ELSE pc' = 0 /\ outcome' = Returned

\* logger.info(...); self._safe_rmtree(directory)
RmtreeStep ==
    /\ pc > 0
    /\ LET step == Program(op)[pc]
       IN  /\ step.kind = "rmtree"
           /\ log' = Append(log, LogMessage(step))
           /\ \E r \in _safe_rmtree(fs, step.dir) :
                /\ fs' = r.fs
                /\ afterRemoval' = SetItem(afterRemoval, step.dir, r.fs[step.dir])
                /\ IF r.raised
                   THEN pc' = 0 /\ outcome' = Raised(step.dir)
                   ELSE Advance
    /\ UNCHANGED <<op, before, hostVars, archiveVars>>

\* logger.info(...); self._safe_copy(source, destination)
CopyStep ==
    /\ pc > 0
    /\ LET step == Program(op)[pc]
       IN  /\ step.kind = "copy"
           /\ log' = Append(log, LogMessage(step))
           /\ \E r \in _safe_copy(fs, step.source, step.dir) :
                /\ fs' = r.fs
                /\ IF r.raised
                   THEN pc' = 0 /\ outcome' = Raised(step.dir)
                   ELSE Advance
    /\ UNCHANGED <<op, before, afterRemoval, hostVars, archiveVars>>

-----------------------------------------------------------------------------
(* The archiver operations *)

RaisedExc(msg) == [status |-> "raised", value |-> msg]
ReturnedVal(v) == [status |-> "returned", value |-> v]

\* faulty variant: no check for None, a bare command name is used instead
_get_7za_executable_unchecked ==
    ReturnedVal(IF zipBin = <<>> THEN "7za" ELSE zipBin[1])

\* _get_7za_executable
_get_7za_executable ==
    LET zip_bin == zipBin
    IN  IF zip_bin = <<>>
        THEN RaisedExc("Couldn't find 7za binary")
        ELSE ReturnedVal(zip_bin[1])

\* faulty variant: the os.path.pardir component is left out
_get_output_dir_without_pardir == abspath(Keys(directory_list)[1])

\* _get_output_dir
_get_output_dir == abspath(join(Keys(directory_list)[1], ".."))

\* faulty variant: the output filename is appended before the exclusion switches
PackArgs_filename_before_exclusions(executable, password, kwargs) ==
    <<executable, "a", "-tzip", "-y">>
    \o (IF password /= <<>> THEN <<"-p" \o password[1]>> ELSE <<>>)
    \o <<kwargs.output_filename>>
    \o (IF "excluded_dirs" \in DOMAIN kwargs
        THEN [i \in 1..Len(kwargs.excluded_dirs) |-> "-x!" \o kwargs.excluded_dirs[i] \o "*"]
        ELSE <<>>)
    \o Keys(directory_list)

\* the command_args of the 'a' branch of _run_executable
PackArgs(executable, password, kwargs) ==
    <<executable, "a", "-tzip", "-y">>
    \o (IF password /= <<>> THEN <<"-p" \o password[1]>> ELSE <<>>)
    \o (IF "excluded_dirs" \in DOMAIN kwargs
        THEN [i \in 1..Len(kwargs.excluded_dirs) |-> "-x!" \o kwargs.excluded_dirs[i] \o "*"]
        ELSE <<>>)
    \o <<kwargs.output_filename>>
    \o Keys(directory_list)

\* the command_args of the 'x' branch of _run_executable
UnpackArgs(executable, password, kwargs) ==
    <<executable, "x", "-tzip", "-y", "-o" \o kwargs.output_dir>>
    \o (IF password /= <<>> THEN <<"-p" \o password[1]>> ELSE <<>>)
    \o <<kwargs.input_file>>

\* _run_executable(command, password, **kwargs) when the started process exits
\* with exitcode: what it returns or raises, and the processes it started
_run_executable(command, password, kwargs, exitcode) ==
    LET executable == _get_7za_executable
    IN  IF executable.status = "raised"
        THEN [result |-> executable, started |-> <<>>]
        ELSE LET command_args ==
                     IF command = "a"
                     THEN PackArgs(executable.value, password, kwargs)
                     ELSE UnpackArgs(executable.value, password, kwargs)
             IN  [result |-> ReturnedVal(exitcode),
                  started |-> <<[args |-> command_args, exitcode |-> exitcode]>>]

\* faulty variant: the name is compared without lower()
RECURSIVE ManagedNames_case_sensitive(_)
ManagedNames_case_sensitive(installed_packages) ==
    IF installed_packages = <<>> THEN <<>>
    ELSE LET package_name == Head(installed_packages)
         IN  (IF package_name /= "Package Control" THEN <<package_name>> ELSE <<>>)
             \o ManagedNames_case_sensitive(Tail(installed_packages))

\* the names that pass `if package_name.lower() != 'package control'`
RECURSIVE ManagedNames(_)
ManagedNames(installed_packages) ==
    IF installed_packages = <<>> THEN <<>>
    ELSE LET package_name == Head(installed_packages)
         IN  (IF lower(package_name) /= "package control" THEN <<package_name>> ELSE <<>>)
             \o ManagedNames(Tail(installed_packages))

\* _excludes_from_package_control
_excludes_from_package_control ==
    LET installed_packages == Get(pcSettings, "installed_packages", <<>>)
        names == ManagedNames(installed_packages)
        Entry(package_name, item) ==
            join(split(item[1])[2], package_name) \o item[2]
    IN  Flatten([n \in 1..Len(names) |->
                    [i \in 1..Len(directory_list) |-> Entry(names[n], directory_list[i])]])

\* faulty variant: the Package Control entries are added whatever backup is
PackKwargs_ignoring_backup(backup, exclude_from_package_control, kwargs, temp_filename) ==
    LET excluded_dirs ==
            Get(kwargs, "excluded_dirs", <<>>)
            \o [i \in 1..Len(blacklist.packages) |->
                    join(basename(packages_path), blacklist.packages[i])]
            \o [i \in 1..Len(blacklist.installed_packages) |->
                    join(basename(installed_packages_path), blacklist.installed_packages[i])]
            \o (IF exclude_from_package_control THEN _excludes_from_package_control ELSE <<>>)
        withExcluded == SetItem(kwargs, "excluded_dirs", excluded_dirs)
    IN  IF "output_filename" \notin DOMAIN kwargs
        THEN SetItem(withExcluded, "output_filename", temp_filename)
        ELSE withExcluded

\* pack_packages up to the call of _run_executable: the kwargs it passes on
PackKwargs(backup, exclude_from_package_control, kwargs, temp_filename) ==
    LET packages_root_path == basename(packages_path)
        installed_packages_root_path == basename(installed_packages_path)
        excluded_dirs ==
            Get(kwargs, "excluded_dirs", <<>>)
            \o [i \in 1..Len(blacklist.packages) |->
                    join(packages_root_path, blacklist.packages[i])]
            \o [i \in 1..Len(blacklist.installed_packages) |->
                    join(installed_packages_root_path, blacklist.installed_packages[i])]
            \o (IF exclude_from_package_control /\ ~backup
                THEN _excludes_from_package_control
                ELSE <<>>)
        withExcluded == SetItem(kwargs, "excluded_dirs", excluded_dirs)
    IN  IF "output_filename" \notin DOMAIN kwargs
        THEN SetItem(withExcluded, "output_filename", temp_filename)
        ELSE withExcluded

\* faulty variant: a non-zero exit code of the archiver is turned into an exception
pack_packages_checking_exitcode(password, backup, exclude_from_package_control, kwargs, temp_filename, exitcode) ==
    LET passed == PackKwargs(backup, exclude_from_package_control, kwargs, temp_filename)
        run == _run_executable("a", password, passed, exitcode)
    IN  [result |-> IF run.result.status = "raised" THEN run.result
                    ELSE IF exitcode /= 0 THEN RaisedExc("7za failed")
                    ELSE ReturnedVal(<<passed.output_filename>>),
         started |-> run.started]

\* pack_packages(password, backup, exclude_from_package_control, **kwargs)
pack_packages(password, backup, exclude_from_package_control, kwargs, temp_filename, exitcode) ==
    LET passed == PackKwargs(backup, exclude_from_package_control, kwargs, temp_filename)
        run == _run_executable("a", password, passed, exitcode)
    IN  [result |-> IF run.result.status = "raised"
                    THEN run.result
                    ELSE ReturnedVal(<<passed.output_filename>>),
         started |-> run.started]

\* unpack_packages(input_file, output_dir, password)
unpack_packages(input_file, output_dir, password, exitcode) ==
    LET dir == IF output_dir = <<>> THEN _get_output_dir ELSE output_dir[1]
        run == _run_executable("x", password,
                               [input_file |-> input_file, output_dir |-> dir], exitcode)
    IN  [result |-> IF run.result.status = "raised"
                    THEN run.result
                    ELSE ReturnedVal(<<>>),
         started |-> run.started]

-----------------------------------------------------------------------------
(* Arguments the callers pass, and what the host can answer *)

Passwords == {<<>>, <<"s3cret">>}
ExcludedDirsArgs == {<<>>, <<"Packages/User/cache">>, <<"a", "b">>}
OutputFilenames == {"/o/out.zip"}
TempFilenames == {"/tmp/t1.zip", "/tmp/t2.zip"}
InputFiles == {"/o/in.zip"}
OutputDirs == {<<>>, <<"/x/y">>}
ExitCodes == {0, 2}
ZipBins == {<<>>, <<"/d/Packages/Sublimall/7za">>}
PackageNames == {"Foo", "Package Control", "PACKAGE control"}
Blacklists ==
    {[packages |-> <<>>, installed_packages |-> <<>>],
     [packages |-> <<"User/Package Control.last-run", "Sublimall">>,
      installed_packages |-> <<"Sublimall.sublime-package">>]}

SeqsUpTo(S, n) == UNION {[1..k -> S] : k \in 0..n}

NoSettings == [k \in {} |-> <<>>]
PcSettings ==
    {NoSettings}
    \cup {[installed_packages |-> names] : names \in SeqsUpTo(PackageNames, MaxPackages)}

NoKwargs == [k \in {} |-> <<>>]
PackKwargsArgs ==
    {NoKwargs}
    \cup {[excluded_dirs |-> e] : e \in ExcludedDirsArgs}
    \cup {[output_filename |-> o] : o \in OutputFilenames}
    \cup {[excluded_dirs |-> e, output_filename |-> o] :
              e \in ExcludedDirsArgs, o \in OutputFilenames}

NoCall == [name |-> ""]

Finish(c, r) ==
    /\ call = NoCall
    /\ call' = c
    /\ popen' = r.started
    /\ ret' = r.result
    /\ UNCHANGED <<hostVars, backupVars>>

CallPackPackages ==
    \E password \in Passwords, backup \in BOOLEAN, exclude_from_package_control \in BOOLEAN,
       kwargs \in PackKwargsArgs, temp_filename \in TempFilenames, exitcode \in ExitCodes :
        Finish([name |-> "pack_packages", password |-> password, backup |-> backup,
                exclude_from_package_control |-> exclude_from_package_control,
                kwargs |-> kwargs,
                generated |-> IF "output_filename" \in DOMAIN kwargs
                              THEN <<>> ELSE <<temp_filename>>],
               pack_packages(password, backup, exclude_from_package_control, kwargs,
                             temp_filename, exitcode))

CallUnpackPackages ==
    \E input_file \in InputFiles, output_dir \in OutputDirs, password \in Passwords,
       exitcode \in ExitCodes :
        Finish([name |-> "unpack_packages", input_file |-> input_file,
                output_dir |-> output_dir, password |-> password],
               unpack_packages(input_file, output_dir, password, exitcode))

RunKwargsArgs ==
    {[output_filename |-> o] : o \in OutputFilenames}
    \cup {[excluded_dirs |-> e, output_filename |-> o] :
              e \in ExcludedDirsArgs, o \in OutputFilenames}

CallRunExecutablePack ==
    \E password \in Passwords, kwargs \in RunKwargsArgs, exitcode \in ExitCodes :
        Finish([name |-> "_run_executable", command |-> "a", password |-> password,
                kwargs |-> kwargs],
               _run_executable("a", password, kwargs, exitcode))

CallExcludesFromPackageControl ==
    Finish([name |-> "_excludes_from_package_control"],
           [result |-> ReturnedVal(_excludes_from_package_control), started |-> <<>>])

-----------------------------------------------------------------------------
(* Initial states and specifications *)

\* No archiver call changes anything another call reads (the Archiver object
\* is immutable after __init__), so SpecArchive applies one call per behaviour
\* to arguments and host answers drawn from the sets above.

InitHost ==
    /\ dataPath \in DataPaths
    /\ directory_list \in DictOrders(DirectoryItems)

InitBackup ==
    /\ fs \in [AllDirs -> DirStates]
    /\ op = ""
    /\ pc = 0
    /\ log = <<>>
    /\ outcome = NoOutcome
    /\ before = fs
    /\ afterRemoval = NothingRemoved

InitArchive ==
    /\ call = NoCall
    /\ popen = <<>>
    /\ ret = [status |-> "none"]

Init ==
    /\ InitHost
    /\ InitBackup
    /\ InitArchive
    /\ zipBin = <<>>
    /\ pcSettings = NoSettings
    /\ blacklist = [packages |-> <<>>, installed_packages |-> <<>>]

Next ==
    \/ \E o \in {"move_packages_to_backup_dirs", "remove_backup_dirs"} : CallBackupOp(o)
    \/ RmtreeStep
    \/ CopyStep

Spec == Init /\ [][Next]_vars

\* a plain installation: both package directories exist, no backups yet
InitInstalled ==
    /\ fs = [d \in AllDirs |-> IF d \in SourceDirs THEN Dir(Files) ELSE Absent]
    /\ op = ""
    /\ pc = 0
    /\ log = <<>>
    /\ outcome = NoOutcome
    /\ before = fs
    /\ afterRemoval = NothingRemoved

InitArchiver ==
    /\ InitHost
    /\ InitInstalled
    /\ InitArchive
    /\ zipBin \in ZipBins
    /\ pcSettings \in PcSettings
    /\ blacklist \in Blacklists

NextArchive ==
    \/ CallPackPackages
    \/ CallUnpackPackages
    \/ CallRunExecutablePack
    \/ CallExcludesFromPackageControl

SpecArchive == InitArchiver /\ [][NextArchive]_vars

-----------------------------------------------------------------------------
(* Properties of the backup operations (checked under Spec) *)

Moving == op = "move_packages_to_backup_dirs"
Finished == pc = 0 /\ outcome.status \in {"returned", "raised"}

RemoveMessage(d) == "Remove old backup dir: " \o d
MoveInstalledMessage ==
    "Move " \o installed_packages_path \o " to " \o installed_packages_bak_path
MovePackagesMessage == "Move " \o packages_path \o " to " \o packages_bak_path

Logged(m) == \E i \in 1..Len(log) : log[i] = m
LoggedBefore(m, i) == \E j \in 1..(i - 1) : log[j] = m

\* the source directory a backup directory is the copy of
SourceOf(b) == IF b = packages_bak_path THEN packages_path ELSE installed_packages_path
OtherBackup(b) ==
    IF b = packages_bak_path THEN installed_packages_bak_path ELSE packages_bak_path

RemovalSucceeded(b) == b \in DOMAIN afterRemoval /\ ~afterRemoval[b].exists
RemovalFailed(b) == b \in DOMAIN afterRemoval /\ afterRemoval[b].exists

\* C1: in move_packages_to_backup_dirs both removal attempts are made before
\* either copy is attempted; and when both removals left their backup
\* directory absent and both source directories exist, then on normal return
\* each backup directory exists and holds exactly what its source holds.
C1_RemoveThenCopy ==
    Moving =>
        /\ \A i \in 1..Len(log) :
               log[i] \in {MoveInstalledMessage, MovePackagesMessage} =>
                   /\ \A b \in BackupDirs : LoggedBefore(RemoveMessage(b), i)
                   /\ DOMAIN afterRemoval = BackupDirs
        /\ ( /\ Finished
             /\ outcome.status = "returned"
             /\ \A b \in BackupDirs : RemovalSucceeded(b)
             /\ \A d \in SourceDirs : fs[d].exists )
           => \A b \in BackupDirs : fs[b] = Dir(fs[SourceOf(b)].files)

\* C1 witness: a returned move whose removals succeeded, where both backups
\* existed before with content other than their source's, and now equal it
C1_Witness ==
    /\ Moving /\ Finished /\ outcome.status = "returned"
    /\ Len(log) = 4
    /\ \A b \in BackupDirs :
          /\ RemovalSucceeded(b)
          /\ before[b].exists
          /\ before[b].files /= before[SourceOf(b)].files
          /\ fs[SourceOf(b)].exists
          /\ fs[b] = Dir(fs[SourceOf(b)].files)

\* C7 as stated: whenever a backup directory still exists after its removal
\* attempt, move_packages_to_backup_dirs returns normally and that backup is
\* left as the removal left it.
C7_AsStated ==
    \A b \in BackupDirs :
        (Moving /\ Finished /\ RemovalFailed(b)) =>
            /\ outcome.status = "returned"
            /\ fs[b] = afterRemoval[b]

\* C7 amended: a backup directory that still exists after its removal attempt
\* raises nothing itself: the removal is silent, the copy into it changes
\* nothing and does not raise, and the operation ends with that backup as the
\* removal left it; the operation returns normally unless the copy into the
\* other backup directory raises (which it cannot when both backups remain).
C7_StaleBackupKept ==
    \A b \in BackupDirs :
        (Moving /\ RemovalFailed(b)) =>
            /\ fs[b] = afterRemoval[b]
            /\ outcome.status = "raised" =>
                  /\ outcome.at = OtherBackup(b)
                  /\ ~RemovalFailed(OtherBackup(b))
                  /\ log[Len(log)] = "Move " \o SourceOf(OtherBackup(b)) \o " to "
                                        \o OtherBackup(b)

\* C7 witness: a normal return that leaves a partially deleted old backup,
\* different from the current source, in place
C7_Witness ==
    \E b \in BackupDirs :
        /\ Moving /\ Finished /\ outcome.status = "returned"
        /\ RemovalFailed(b)
        /\ afterRemoval[b] /= before[b]
        /\ fs[b] = afterRemoval[b]
        /\ fs[SourceOf(b)].exists
        /\ fs[b].files /= fs[SourceOf(b)].files
        /\ Logged("Move " \o SourceOf(b) \o " to " \o b)

C10_InstalledCopiedFirst ==
    Moving =>
        /\ \A i \in 1..Len(log) :
               log[i] = MovePackagesMessage => LoggedBefore(MoveInstalledMessage, i)
        /\ outcome = Raised(installed_packages_bak_path) =>
               /\ pc = 0
               /\ ~Logged(MovePackagesMessage)
               /\ log[Len(log)] = MoveInstalledMessage
               /\ fs[packages_bak_path] = afterRemoval[packages_bak_path]

\* C10 witness: the Installed Packages directory does not exist, the copy of it
\* raised, and the Packages backup, a faithful copy before the call, is gone
C10_Witness ==
    /\ Moving /\ outcome = Raised(installed_packages_bak_path)
    /\ ~fs[installed_packages_path].exists
    /\ fs[packages_path].exists
    /\ before[packages_bak_path] = Dir(before[packages_path].files)
    /\ ~fs[packages_bak_path].exists
    /\ ~fs[installed_packages_bak_path].exists

-----------------------------------------------------------------------------
(* Properties of the archiver operations (checked under SpecArchive) *)

Packed == call.name = "pack_packages"
Unpacked == call.name = "unpack_packages"
BinaryFound == zipBin /= <<>>
Started == Len(popen) > 0

\* the names Package Control has installed, [] when the setting is absent
InstalledNames ==
    IF "installed_packages" \in DOMAIN pcSettings THEN pcSettings.installed_packages ELSE <<>>

IsPackageControl(name) == lower(name) = "package control"
ManagedIndices == {i \in 1..Len(InstalledNames) : ~IsPackageControl(InstalledNames[i])}

\* r lists, for each installed name other than Package Control and in their
\* order, its two entries (one per package directory) and nothing else
ListsManagedEntries(r) ==
    /\ Len(r) = 2 * Cardinality(ManagedIndices)
    /\ \A i \in ManagedIndices :
          LET j == Cardinality({k \in ManagedIndices : k <= i})
          IN  {r[2 * j - 1], r[2 * j]} =
                  {"Packages/" \o InstalledNames[i],
                   "Installed Packages/" \o InstalledNames[i] \o ".sublime-package"}
    /\ \A j \in 1..Len(r), n \in PackageNames :
          IsPackageControl(n) =>
              r[j] \notin {"Packages/" \o n, "Installed Packages/" \o n \o ".sublime-package"}

\* the "-x!<entry>*" switches of an argument list, with the wrapping removed
RECURSIVE ExclusionsOf(_)
ExclusionsOf(args) ==
    IF args = <<>> THEN <<>>
    ELSE LET a == Head(args)
         IN  (IF Len(a) >= 4 /\ SubSeq(a, 1, 3) = "-x!" /\ CharAt(a, Len(a)) = "*"
              THEN <<SubSeq(a, 4, Len(a) - 1)>> ELSE <<>>)
             \o ExclusionsOf(Tail(args))

\* C2: the exclusion list pack_packages hands to the archiver is the caller's
\* excluded_dirs (if any), then "Packages/<entry>" for every blacklist.packages
\* entry, then "Installed Packages/<entry>" for every
\* blacklist.installed_packages entry, then the Package Control managed entries
\* exactly when exclude_from_package_control is true and backup is false.
C2_ExclusionList ==
    (Packed /\ Started) =>
        LET excluded == ExclusionsOf(popen[1].args)
            given == IF "excluded_dirs" \in DOMAIN call.kwargs
                     THEN call.kwargs.excluded_dirs ELSE <<>>
            nG == Len(given)
            nP == Len(blacklist.packages)
            nI == Len(blacklist.installed_packages)
            rest == SubSeq(excluded, nG + nP + nI + 1, Len(excluded))
        IN  /\ Len(excluded) >= nG + nP + nI
            /\ SubSeq(excluded, 1, nG) = given
            /\ \A i \in 1..nP : excluded[nG + i] = "Packages/" \o blacklist.packages[i]
            /\ \A i \in 1..nI :
                  excluded[nG + nP + i] =
                      "Installed Packages/" \o blacklist.installed_packages[i]
            /\ IF call.exclude_from_package_control /\ ~call.backup
               THEN ListsManagedEntries(rest)
               ELSE rest = <<>>

\* C2 witness: caller entries, blacklist entries and managed entries all occur
C2_Witness ==
    /\ Packed /\ Started
    /\ "excluded_dirs" \in DOMAIN call.kwargs /\ Len(call.kwargs.excluded_dirs) = 2
    /\ Len(blacklist.packages) = 2
    /\ call.exclude_from_package_control /\ ~call.backup
    /\ Cardinality(ManagedIndices) = 1 /\ Len(InstalledNames) = 2
    /\ Len(ExclusionsOf(popen[1].args)) = 7

\* C2 second witness: with backup=True the managed entries are left out
C2_BackupWitness ==
    /\ Packed /\ Started
    /\ call.exclude_from_package_control /\ call.backup
    /\ ManagedIndices /= {}
    /\ Len(ExclusionsOf(popen[1].args)) = 3

\* C3: when the archiver was run, pack_packages returns the output filename it
\* handed to it, which is the caller's output_filename when given and the
\* generated temporary filename otherwise, whatever the archiver's exit code;
\* unpack_packages returns normally whatever the exit code.
C3_ReturnsOutputFilename ==
    /\ (Packed /\ Started) =>
          /\ Len(popen) = 1
          /\ ret.status = "returned"
          /\ ret.value = IF "output_filename" \in DOMAIN call.kwargs
                         THEN <<call.kwargs.output_filename>>
                         ELSE call.generated
          /\ ret.value = <<popen[1].args[Len(popen[1].args) - 2]>>
    /\ (Unpacked /\ Started) => ret.status = "returned"

\* C3 witness: the archiver failed and pack_packages returned the generated name
C3_Witness ==
    /\ Packed /\ Started
    /\ popen[1].exitcode /= 0
    /\ "output_filename" \notin DOMAIN call.kwargs
    /\ ret.status = "returned" /\ ret.value = call.generated /\ Len(ret.value) = 1

\* C4: when the binary is found, unpack_packages starts the archiver exactly
\* once with [binary, 'x', '-tzip', '-y', '-o<output_dir>', '-p<password>' iff
\* a password is given, input_file], output_dir being the caller's or else the
\* parent directory of the Packages directory.
C4_UnpackArguments ==
    (Unpacked /\ BinaryFound) =>
        LET output_dir == IF call.output_dir /= <<>> THEN call.output_dir[1] ELSE dataPath
        IN  /\ Len(popen) = 1
            /\ popen[1].args =
                  <<zipBin[1], "x", "-tzip", "-y", "-o" \o output_dir>>
                  \o (IF call.password /= <<>> THEN <<"-p" \o call.password[1]>> ELSE <<>>)
                  \o <<call.input_file>>

\* C4 witness: the default output directory, with the dict iterated in the
\* order that puts Installed Packages first
C4_Witness ==
    /\ Unpacked /\ Started
    /\ call.output_dir = <<>> /\ call.password /= <<>>
    /\ directory_list[1][1] = installed_packages_path
    /\ popen[1].args[5] = "-o" \o dataPath
    /\ Len(popen[1].args) = 7

\* C5: for the add command the arguments are binary, 'a', '-tzip', '-y', then
\* '-p<password>' iff a password is given, then one '-x!<entry>*' per entry of
\* excluded_dirs in list order, then the output filename, then the Packages and
\* Installed Packages directories, which are the last two arguments.
C5_PackArgumentOrder ==
    (call.name = "_run_executable" /\ call.command = "a" /\ BinaryFound) =>
        LET args == popen[1].args
            p == IF call.password /= <<>> THEN 1 ELSE 0
            excluded == IF "excluded_dirs" \in DOMAIN call.kwargs
                        THEN call.kwargs.excluded_dirs ELSE <<>>
            n == Len(excluded)
        IN  /\ Len(popen) = 1
            /\ Len(args) = 4 + p + n + 3
            /\ SubSeq(args, 1, 4) = <<zipBin[1], "a", "-tzip", "-y">>
            /\ p = 1 => args[5] = "-p" \o call.password[1]
            /\ \A i \in 1..n : args[4 + p + i] = "-x!" \o excluded[i] \o "*"
            /\ args[4 + p + n + 1] = call.kwargs.output_filename
            /\ {args[Len(args) - 1], args[Len(args)]} =
                   {dataPath \o "/Packages", dataPath \o "/Installed Packages"}

\* C5 witness: a password and two exclusions
C5_Witness ==
    /\ call.name = "_run_executable" /\ Started
    /\ call.password /= <<>>
    /\ "excluded_dirs" \in DOMAIN call.kwargs /\ Len(call.kwargs.excluded_dirs) = 2
    /\ Len(popen[1].args) = 10
    /\ popen[1].args[6] = "-x!a*" /\ popen[1].args[7] = "-x!b*"

\* C6: when get_7za_bin returns None, pack_packages and unpack_packages raise,
\* start no process, and pack_packages returns no filename.
C6_MissingBinaryRaises ==
    ((Packed \/ Unpacked) /\ ~BinaryFound) =>
        /\ ret.status = "raised"
        /\ ret.value = "Couldn't find 7za binary"
        /\ popen = <<>>

\* C6 witness: each of the two operations has raised for a missing binary
C6_Witness == Packed /\ ~BinaryFound /\ ret.status = "raised" /\ popen = <<>>

\* C8: _excludes_from_package_control returns, for every installed name other
\* than 'package control' in any letter case, its two entries
\* Packages/<name> and Installed Packages/<name>.sublime-package, no entry for
\* Package Control itself, and nothing when the setting is absent.
C8_ManagedEntries ==
    call.name = "_excludes_from_package_control" =>
        /\ ret.status = "returned"
        /\ ListsManagedEntries(ret.value)
        /\ "installed_packages" \notin DOMAIN pcSettings => ret.value = <<>>

\* C8 witness: Package Control in another letter case is skipped, Foo is kept
C8_Witness ==
    /\ call.name = "_excludes_from_package_control"
    /\ InstalledNames = <<"PACKAGE control", "Foo">>
    /\ Len(ret.value) = 2
    /\ "Installed Packages/Foo.sublime-package" \in {ret.value[1], ret.value[2]}

====
